---- MODULE Spec2Model ----
(***************************************************************************)
(* The chaos <-> formed particle tree: App state (mode, theme, photos,     *)
(* gallery), the Scene's component tree and every component's per-frame    *)
(* update.                                                                 *)
(*                                                                         *)
(* Numbers.  The program computes in IEEE doubles; the model computes in   *)
(* fixed point, rounding to nearest after every library call:              *)
(*   progress, easing and lerp factors   in units of 1/One                 *)
(*   positions, scales, sin/cos values   in units of 1/Milli               *)
(*   angles                              in milliradians                   *)
(*   uniform random numbers              in units of 1/Milli, 0..Milli-1   *)
(*   clock time and frame deltas         in quarter seconds                *)
(* Every population is represented by its instance 0.                      *)
(***************************************************************************)
EXTENDS Integers, Sequences, FiniteSets, TLC

\* 1.0 of a progress value, an easing value or a lerp factor.
One == 10000
\* 1.0 of a position, a scale, a trigonometric value or a random number.
Milli == 1000
\* Math.PI in milliradians.
Pi == 3142
\* Frame deltas and the clock count quarter seconds.
TicksPerSecond == 4

(***************************************************************************)
(* Arithmetic of the libraries the program calls (Math, THREE.MathUtils).  *)
(***************************************************************************)
\* a / b rounded to the nearest integer (halves up), b > 0.
RoundDiv(a, b) == (2 * a + b) \div (2 * b)

Abs(a) == IF a < 0 THEN -a ELSE a

Max(a, b) == IF a > b THEN a ELSE b

Min(a, b) == IF a < b THEN a ELSE b

\* The integer part of the square root of n >= 0, by bisection on lo..hi.
RECURSIVE ISqrtIn(_, _, _)
ISqrtIn(n, lo, hi) ==
    IF lo >= hi THEN lo
    ELSE LET mid == (lo + hi + 1) \div 2
         IN  IF mid * mid <= n THEN ISqrtIn(n, mid, hi) ELSE ISqrtIn(n, lo, mid - 1)

ISqrt(n) == ISqrtIn(n, 0, 40000)

\* Math.sqrt of n / Milli, in 1/Milli.
Sqrt(n) == ISqrt(n * Milli)

\* The integer part of the cube root of n >= 0, by bisection on lo..hi.
RECURSIVE ICbrtIn(_, _, _)
ICbrtIn(n, lo, hi) ==
    IF lo >= hi THEN lo
    ELSE LET mid == (lo + hi + 1) \div 2
         IN  IF mid * mid * mid <= n THEN ICbrtIn(n, mid, hi) ELSE ICbrtIn(n, lo, mid - 1)

\* Math.cbrt of n / Milli (0 <= n <= Milli), in 1/Milli.
Cbrt(n) == ICbrtIn(n * Milli * Milli, 0, Milli)

\* Math.sin of an angle in milliradians, in 1/Milli (Bhaskara's rational
\* approximation on each half period, absolute error below 0.002).
SinHalf(x) ==
    LET p == (x * (Pi - x)) \div 100
    IN  RoundDiv(16 * Milli * p, ((5 * Pi * Pi) \div 100) - 4 * p)

Sin(a) ==
    LET x == a % (2 * Pi)
    IN  IF x <= Pi THEN SinHalf(x) ELSE -SinHalf(x - Pi)

\* Math.cos of an angle in milliradians, in 1/Milli.
Cos(a) == Sin(a + Pi \div 2)

\* Math.exp(-x) for x >= 0 in 1/(TicksPerSecond * Milli), result in 1/One:
\* Taylor series below 1/2, exp(-x) = exp(-x/2)^2 above.
RECURSIVE ExpNeg(_)
ExpNeg(x) ==
    IF x <= (TicksPerSecond * Milli) \div 2
    THEN LET u  == 100 * One
             d  == TicksPerSecond * Milli
             t1 == (u * x) \div d
             t2 == (t1 * x) \div (2 * d)
             t3 == (t2 * x) \div (3 * d)
             t4 == (t3 * x) \div (4 * d)
             t5 == (t4 * x) \div (5 * d)
             t6 == (t5 * x) \div (6 * d)
         IN  RoundDiv(u - t1 + t2 - t3 + t4 - t5 + t6, 100)
    ELSE LET a == ExpNeg(x \div 2)
             b == ExpNeg(x - (x \div 2))
         IN  RoundDiv(a * b, One)

\* THREE.MathUtils.lerp(x, y, t) = (1 - t) * x + t * y, t in 1/One.
Lerp(x, y, t) == RoundDiv((One - t) * x + t * y, One)

\* THREE.MathUtils.damp(x, y, lambda, dt) = lerp(x, y, 1 - exp(-lambda * dt)),
\* lambda in 1/Milli, dt in quarter seconds.
Damp(x, y, lambda, dt) == Lerp(x, y, One - ExpNeg(lambda * dt))

\* The ease-out cubic every component applies: 1 - (1 - t)^3.
EaseOutCubic(t) ==
    LET q  == One - t
        q2 == RoundDiv(q * q, One)
        q3 == RoundDiv(q2 * q, One)
    IN  One - q3

\* GLSL smoothstep(0.0, 1.0, x): clamp, then x * x * (3 - 2 * x).
Smoothstep(x) ==
    LET c == Max(0, Min(One, x))
    IN  RoundDiv(RoundDiv(c * c, One) * (3 * One - 2 * c), One)

\* Vector3.lerpVectors(a, b, t), GLSL mix(a, b, t).
LerpVectors(a, b, t) == <<Lerp(a[1], b[1], t), Lerp(a[2], b[2], t), Lerp(a[3], b[3], t)>>

\* THREE.MathUtils.lerp(x, y, num / den) with the factor given as a fraction.
LerpBy(x, y, num, den) == RoundDiv((den - num) * x + num * y, den)

\* a * b for a in 1/Milli: the product in the unit of b.
Times(a, b) == RoundDiv(a * b, Milli)

Origin == <<0, 0, 0>>

(***************************************************************************)
(* utils/math: the spatial distribution functions.  The Math.random()      *)
(* draws each call makes are its extra parameters.                         *)
(***************************************************************************)
\* A point drawn uniformly in the cube around the sphere.
randomCubePoint(radius, u, v, w) ==
    << Times(2 * u - Milli, radius), Times(2 * v - Milli, radius), Times(2 * w - Milli, radius) >>

\* randomSpherePoint(radius): u, v, w are the three draws in source order;
\* cos(acos(2v - 1)) = 2v - 1 and sin(acos(c)) = sqrt(1 - c^2).
randomSpherePoint(radius, u, v, w) ==
    LET theta  == 2 * Times(u, Pi)
        cosPhi == 2 * v - Milli
        sinPhi == ISqrt(Milli * Milli - cosPhi * cosPhi)
        r      == Times(Cbrt(w), radius)
    IN  << Times(Times(r, sinPhi), Cos(theta)),
           Times(Times(r, sinPhi), Sin(theta)),
           Times(r, cosPhi) >>

\* getTreePosition(i, count, radiusBase, height, yOffset).
getTreePosition(i, count, radiusBase, height, yOffset) ==
    LET p     == RoundDiv(i * Milli, count)
        angle == 40 * Times(p, Pi)
        y     == Times(p, height)
        r     == Times(Milli - p, radiusBase)
    IN  << Times(r, Cos(angle)), y + yOffset, Times(r, Sin(angle)) >>

\* A point on the cylinder around the cone: the radius does not taper.
getCylinderSurfacePosition(radiusBase, height, yOffset, u, u2) ==
    LET hRatio == Milli - Sqrt(u)
        y      == Times(hRatio, height)
        theta  == 2 * Times(u2, Pi)
    IN  << Times(radiusBase, Cos(theta)), y + yOffset, Times(radiusBase, Sin(theta)) >>

\* getTreeSurfacePosition(radiusBase, height, yOffset): u and u2 are the
\* two draws in source order.
getTreeSurfacePosition(radiusBase, height, yOffset, u, u2) ==
    LET hRatio == Milli - Sqrt(u)
        y      == Times(hRatio, height)
        r      == Times(Milli - hRatio, radiusBase)
        theta  == 2 * Times(u2, Pi)
    IN  << Times(r, Cos(theta)), y + yOffset, Times(r, Sin(theta)) >>

(***************************************************************************)
(* Bounds of the model.                                                    *)
(***************************************************************************)
\* UI events (mode, theme, upload, remove, gallery) in one behaviour.
MaxEvents == 4
\* Frames in one behaviour.
MaxFrames == 1
\* Object URLs URL.createObjectURL hands out in one behaviour.
MaxUrls == 3
\* Math.random() starts in one of the generator states 0..MaxSeed.
MaxSeed == 0

\* The frame deltas a behaviour draws from, in quarter seconds: a half
\* second, a long frame of 1.5 s and a 10 s stall (a tab left in the
\* background).
Deltas == {2, 6, 40}

(***************************************************************************)
(* types, Scene: the component tree and its configuration tables.          *)
(***************************************************************************)
TreeMode == {"CHAOS", "FORMED"}

Theme == {"CLASSIC", "SNOWY", "ICY"}

\* The Ornaments fields the Scene declares, by the name of their palette.
OrnamentFields == {"box", "drum", "cane", "bell", "pine", "flat", "ball", "stars"}

\* The two Foliage layers.
FoliageLayers == {"foliageInner", "foliageOuter"}

\* Every component the Scene declares but the photo cards.
SceneComponents ==
    {"snow", "ribbon", "leaves", "lights", "star"} \cup FoliageLayers \cup OrnamentFields

\* The object URLs, in the order URL.createObjectURL hands them out.
UrlNames == <<"blob:1", "blob:2", "blob:3", "blob:4", "blob:5", "blob:6">>

Urls == {UrlNames[i] : i \in 1..MaxUrls}

\* The components: a PolaroidItem is keyed by its url.
Components == SceneComponents \cup Urls

\* Scene.config and the literal counts: the count prop of a component.
Count(c, th) ==
    CASE c = "box"   -> IF th = "ICY" THEN 0 ELSE 60
      [] c = "ball"  -> IF th = "ICY" THEN 350 ELSE 150
      [] c = "stars" -> IF th = "ICY" THEN 120 ELSE 0
      [] c = "drum"  -> IF th = "ICY" THEN 0 ELSE 50
      [] c = "flat"  -> IF th = "ICY" THEN 0 ELSE 40
      [] c = "cane"  -> IF th = "ICY" THEN 40 ELSE 80
      [] c = "bell"  -> 60
      [] c = "pine"  -> 70
      [] c = "snow"  -> 5000
      [] c = "foliageInner" -> 20000
      [] c = "foliageOuter" -> 30000
      [] c = "leaves" -> 800
      [] c = "lights" -> 150
      [] c = "ribbon" -> 400
      [] OTHER -> 1

\* The weight prop of an Ornaments field, in 1/Milli.
Weight(c) ==
    CASE c = "box"   -> 900
      [] c = "drum"  -> 700
      [] c = "cane"  -> 400
      [] c = "bell"  -> 600
      [] c = "pine"  -> 800
      [] c = "flat"  -> 500
      [] c = "ball"  -> 400
      [] c = "stars" -> 300

\* The scaleRange prop of an Ornaments field, in 1/Milli.
ScaleRange(c) ==
    CASE c = "box"   -> <<300, 500>>
      [] c = "drum"  -> <<300, 450>>
      [] c = "cane"  -> <<200, 300>>
      [] c = "bell"  -> <<250, 400>>
      [] c = "pine"  -> <<300, 400>>
      [] c = "flat"  -> <<300, 400>>
      [] c = "ball"  -> <<150, 250>>
      [] c = "stars" -> <<200, 350>>

\* The type prop of an Ornaments field.
OrnamentType(c) ==
    CASE c = "box"   -> "box"
      [] c = "drum"  -> "cylinder"
      [] c = "cane"  -> "cylinder"
      [] c = "bell"  -> "cone"
      [] c = "pine"  -> "dodecahedron"
      [] c = "flat"  -> "flat-box"
      [] c = "ball"  -> "sphere"
      [] c = "stars" -> "star"

\* The color prop of a Foliage layer.
FoliageColor(c, th) ==
    IF c = "foliageOuter"
    THEN (IF th = "ICY" THEN "#004242" ELSE "#006432")
    ELSE (IF th = "ICY" THEN "#002222" ELSE "#003300")

\* The radiusBase prop of a Foliage layer, in 1/Milli.
FoliageRadius(c) == IF c = "foliageInner" THEN 3800 ELSE 4500

\* The elements of a sequence.
Range(s) == {s[i] : i \in 1..Len(s)}

\* A Scene that mounts every Ornaments field whatever its count.
InTreeUnguarded(c, th, ph) ==
    CASE c = "snow"   -> th = "SNOWY"
      [] c = "ribbon" -> th = "ICY"
      [] c \in Urls   -> c \in Range(ph)
      [] OTHER -> TRUE

\* Whether the Scene's JSX holds the component for this theme and photo list.
InTree(c, th, ph) ==
    CASE c = "snow"   -> th = "SNOWY"
      [] c = "ribbon" -> th = "ICY"
      [] c \in {"box", "drum", "flat", "stars"} -> Count(c, th) > 0
      [] c \in Urls   -> c \in Range(ph)
      [] OTHER -> TRUE

\* Polaroids: the index prop (from 0) of the card of url u in the list ph.
IndexOf(u, ph) == (CHOOSE i \in 1..Len(ph) : ph[i] = u) - 1

\* Polaroids: the <<index, total>> props of the card of url u.
CardSlot(u, ph) == <<IndexOf(u, ph), Len(ph)>>

(***************************************************************************)
(* Math.random(): a generator whose starting state is unknown and whose    *)
(* draws then follow from it.                                              *)
(***************************************************************************)
\* The most Math.random() draws one instance takes (Ornaments.data).
DrawsPerInstance == 10

\* The JSX order of the components, the photo cards last.
RenderOrder ==
    <<"snow", "ribbon", "foliageInner", "foliageOuter", "leaves", "box", "drum", "cane",
      "bell", "pine", "flat", "ball", "stars">> \o UrlNames \o <<"lights", "star">>

Ord(c) == CHOOSE i \in 1..Len(RenderOrder) : RenderOrder[i] = c

\* The draws one render pass of the Scene can take.
DrawsPerRender == DrawsPerInstance * (Len(RenderOrder) + 1)

\* The draw at position pos of the stream of generator state seed, in 1/Milli.
Random(seed, pos) == ((pos + 37 * seed + 11) * 877) % Milli

\* The j-th draw (from 0) that component c takes in the render pass starting
\* at stream position base.
Draw(seed, base, c, j) == Random(seed, base + DrawsPerInstance * Ord(c) + j)

(***************************************************************************)
(* The per-instance data each component computes in its useMemo.           *)
(***************************************************************************)
NoParams == [phase |-> 0, speed |-> 0, scale |-> 0]

\* PolaroidItem.targetPos for the props <<index, total>>.
TargetPos(index, total) ==
    LET radiusBase == 4800
        treeHeight == 9000
        heightRatio == Milli - RoundDiv(index * Milli, Max(total, 1))
        randomHeightOffset == Sin(index * 12340) + Milli
        yPos == Times(Times(heightRatio, treeHeight), 800) + randomHeightOffset
        rAtHeight == Max(500, Times(radiusBase, Milli - RoundDiv(yPos * Milli, treeHeight)))
        angle == index * 800 + index * index * 50
    IN  << Times(rAtHeight, Cos(angle)), yPos - 5000, Times(rAtHeight, Sin(angle)) >>

\* Ornaments.data: the target pushed outward by pushFactor along the
\* normalized horizontal direction.
PushOut(t) ==
    LET len == ISqrt(t[1] * t[1] + t[3] * t[3])
        dx  == IF len = 0 THEN 0 ELSE RoundDiv(t[1] * Milli, len)
        dz  == IF len = 0 THEN 0 ELSE RoundDiv(t[3] * Milli, len)
    IN  << t[1] + Times(dx, 250), t[2], t[3] + Times(dz, 250) >>

\* The data of instance 0 of component c, computed in its useMemo from the
\* draws of one render pass (seed, base): its chaos position,
NewChaos(c, seed, base) ==
    LET D(j) == Draw(seed, base, c, j)
        radius == CASE c = "lights" -> 14000
                    [] c = "snow"   -> 30000
                    [] c = "star"   -> 12000
                    [] c \in Urls   -> 14000
                    [] OTHER        -> 25000
    IN  randomSpherePoint(radius, D(0), D(1), D(2))

\* its target position (a photo card's from its props slot = <<index, total>>),
NewTarget(c, th, slot, seed, base) ==
    LET D(j) == Draw(seed, base, c, j)
    IN  CASE c \in OrnamentFields ->
               PushOut(getTreeSurfacePosition(4000, 9500, -5000, D(3), D(4)))
          [] c \in FoliageLayers ->
               LET t == getTreePosition(0, Count(c, th), FoliageRadius(c), 10000, -5000)
               IN  << t[1] + Times(D(3) - 500, 800),
                      t[2] + Times(D(4) - 500, 800),
                      t[3] + Times(D(5) - 500, 800) >>
          [] c = "leaves" ->
               LET t == getTreeSurfacePosition(4200, 9500, -5000, D(3), D(4))
               IN  << Times(t[1], 950), Times(t[2], 950), Times(t[3], 950) >>
          [] c = "lights" -> getTreeSurfacePosition(4600, 9800, -5000, D(3), D(4))
          [] c = "snow" ->
               LET t == getTreeSurfacePosition(4600, 9800, -5000, D(3), D(4))
               IN  << t[1], t[2] + Times(D(5), 200), t[3] >>
          [] c = "ribbon" -> << 500, 5500, 0 >>
          [] c = "star" -> << 0, 5200, 0 >>
          [] OTHER -> TargetPos(slot[1], slot[2])

\* and its random parameters: phase (an angle, or the aRandom attribute of a
\* point), speed (wobbleSpeed, swaySpeed) and scale.
NewParams(c, seed, base) ==
    LET D(j) == Draw(seed, base, c, j)
    IN  CASE c \in OrnamentFields ->
               [phase |-> 2 * Times(D(7), Pi),
                speed |-> Milli + D(9),
                scale |-> Times(D(6), ScaleRange(c)[2] - ScaleRange(c)[1])
                          + ScaleRange(c)[1]]
          [] c \in FoliageLayers \cup {"snow"} -> [phase |-> D(6), speed |-> 0, scale |-> 0]
          [] c = "leaves" ->
               [phase |-> 2 * Times(D(9), Pi), speed |-> 0, scale |-> 300 + Times(D(8), 400)]
          [] c = "lights" -> [phase |-> 2 * Times(D(5), Pi), speed |-> 0, scale |-> 0]
          [] c \in Urls ->
               [phase |-> 2 * Times(D(3), Pi), speed |-> 500 + Times(D(4), 1500),
                scale |-> 0]
          [] OTHER -> NoParams

\* What the component shows between its mount and its first frame: the
\* chaos position where the setup writes it (instance matrices, the position
\* attribute), the origin for an untouched group or instance matrix.
SetupPosition(c, ch) == IF c \in Urls \cup {"star", "ribbon"} THEN Origin ELSE ch

(***************************************************************************)
(* The per-frame update of each component (its useFrame callback and, for  *)
(* the point fields, its vertex shader).                                   *)
(***************************************************************************)
\* The value the progress of a component moves toward.
ProgressTarget(m) == IF m = "FORMED" THEN One ELSE 0

\* Every damped component with the damping constant of the Star, 0.8.
LambdaOfStar(c) == 800

\* Ornaments fields whose dampSpeed is the weight itself.
LambdaByWeight(c) ==
    CASE c \in OrnamentFields -> Weight(c)
      [] c = "leaves" -> 1500
      [] c = "ribbon" -> 1000
      [] c = "star"   -> 800
      [] OTHER        -> 1200

\* The damping constant of a component that uses MathUtils.damp, in 1/Milli;
\* an Ornaments field's dampSpeed is 1.0 / weight.
Lambda(c) ==
    CASE c \in OrnamentFields -> RoundDiv(Milli * Milli, Weight(c))
      [] c = "leaves" -> 1500
      [] c = "ribbon" -> 1000
      [] c = "star"   -> 800
      [] OTHER        -> 1200

\* The progress a component holds after a frame of delta dt (quarter
\* seconds) that starts from progress p in mode m.
FrameProgress(c, p, m, dt) ==
    CASE c \in FoliageLayers \cup {"snow"} -> Lerp(p, ProgressTarget(m), 200)
      [] c = "lights" -> LerpBy(p, ProgressTarget(m), dt, TicksPerSecond)
      [] OTHER -> Damp(p, ProgressTarget(m), Lambda(c), dt)

\* Every component moving in a straight line at constant speed: the raw
\* progress is the interpolation factor.
FramePositionLinear(c, p, time, ch, tg, par) == LerpVectors(ch, tg, p)

\* An Ornaments field that wobbles at every progress, not only above 0.8.
FramePositionWobbling(c, p, time, ch, tg, par) ==
    LET pos == LerpVectors(ch, tg, EaseOutCubic(p))
        wobble == Times(Sin(500 * time + par.phase), 50)
    IN  IF c \in OrnamentFields THEN << pos[1], pos[2] + wobble, pos[3] >> ELSE pos

\* The position a component gives its instance in a frame, from the
\* progress p it holds after the frame's update and the clock time (quarter
\* seconds): the interpolation and the component's own offsets.
FramePosition(c, p, time, ch, tg, par) ==
    LET ms == 250 * time
    IN  CASE c \in OrnamentFields ->
               LET pos == LerpVectors(ch, tg, EaseOutCubic(p))
                   wobble == Times(Sin(2 * ms + par.phase), 50)
               IN  IF p > 8000 THEN << pos[1], pos[2] + wobble, pos[3] >> ELSE pos
          [] c \in FoliageLayers ->
               LET t == EaseOutCubic(p)
                   pos == LerpVectors(ch, tg, t)
                   breath == RoundDiv(Times(Sin(ms \div 2 + 10 * par.phase), 100) * t, One)
               IN  << pos[1], pos[2] + breath, pos[3] >>
          [] c = "snow" ->
               LET pos == LerpVectors(ch, tg, EaseOutCubic(p))
               IN  << pos[1] + Times(Sin(ms \div 2 + 10 * par.phase), 200),
                      pos[2] + Times(Cos((3 * ms) \div 10 + 20 * par.phase), 200),
                      pos[3] + Times(Sin((4 * ms) \div 10 + 15 * par.phase), 200) >>
          [] c = "lights" -> LerpVectors(ch, tg, EaseOutCubic(Smoothstep(p)))
          [] OTHER -> LerpVectors(ch, tg, EaseOutCubic(p))

\* The emissive prop of an Ornaments field: the Scene passes none, and the
\* default is false.
Emissive(c) == FALSE

\* A pulse gated on the eased progress instead of the raw one.
ScaleMultOnEased(emissive, type, p, time, phase) ==
    IF (emissive \/ type = "star") /\ EaseOutCubic(p) > 9000
    THEN Milli + Times(Sin(750 * time + phase), 200)
    ELSE Milli

\* Ornaments useFrame: scaleMult, the pulse of an emissive or star field
\* above progress 0.9, in 1/Milli.
ScaleMult(emissive, type, p, time, phase) ==
    IF (emissive \/ type = "star") /\ p > 9000
    THEN Milli + Times(Sin(750 * time + phase), 200)
    ELSE Milli

\* The scale an Ornaments field gives its instance in a frame: the drawn
\* scale times (0.8 + 0.2 * easedT), times scaleMult.
FrameScale(c, p, time, par) ==
    LET grow == 800 + RoundDiv(200 * EaseOutCubic(p), One)
    IN  Times(Times(par.scale, grow),
              ScaleMult(Emissive(c), OrnamentType(c), p, time, par.phase))

(***************************************************************************)
(* State.                                                                  *)
(***************************************************************************)
VARIABLES
    mode,          \* App: the mode state
    theme,         \* App: the theme state
    photos,        \* App: the photos state, a sequence of object URLs
    isGalleryOpen, \* App: the gallery modal
    revoked,       \* the object URLs URL.revokeObjectURL was called on
    urlCount,      \* the object URLs URL.createObjectURL has handed out
    rngSeed,       \* Math.random: the generator's starting state
    rngPos,        \* Math.random: the stream position of the next render pass
    clock,         \* state.clock: the elapsed time, in quarter seconds
    renderId,      \* the render passes of the Scene so far: the identity of
                   \* the array and object literals of the latest pass
    paletteMemo,   \* the render pass that computed Scene.palettes
    mounted,       \* the components that are mounted
    progress,      \* per component: progress.current or uniforms.uProgress.value
    chaos,         \* per component: the chaos position of its instance
    target,        \* per component: the target position of its instance
    params,        \* per component: the random parameters of its instance
    dataDeps,      \* per Ornaments field: the dependencies of its data memo
    slot,          \* per photo card: its <<index, total>> props
    rendered,      \* per component: the position its instance was last given
    created,       \* history: the chaos position the instance was created with
    lastOp,        \* history: the latest step, [name, arg, mode before it]
    prevOp,        \* history: the step before the latest
    events,        \* history: the UI events so far
    frames,        \* history: the frames so far
    presses,       \* history: the presses of the theme button so far
    error,         \* "none", or the url whose image failed to load and took
                   \* the React tree down
    shownScale,    \* per Ornaments field: the scale its instance was last given
    unit           \* a component or function driven on its own: the call and
                   \* what it gave

appVars == <<mode, theme, photos, isGalleryOpen, revoked, urlCount>>

sceneVars == <<rngPos, renderId, paletteMemo, mounted, chaos, target, params, dataDeps,
               slot, created>>

\* No component or function has been driven on its own.
NoUnit == [op |-> "none"]

vars == <<appVars, sceneVars, rngSeed, clock, progress, rendered, lastOp, prevOp,
          events, frames, presses, error, shownScale, unit>>

(***************************************************************************)
(* A render pass of the Scene: every set state of the App re-renders the   *)
(* Scene and all its children.                                             *)
(***************************************************************************)
\* A reconciliation by position in the list, as key={i} would give: the card
\* at an index takes over the instance that was at that index.
KeyedByIndex(c, ph) ==
    IF c \in Range(ph) /\ IndexOf(c, ph) < Len(photos)
    THEN photos[IndexOf(c, ph) + 1]
    ELSE c

\* React's reconciliation: the mounted instance whose state the element of
\* component c takes over.  The Scene's components keep their place in the
\* JSX; a PolaroidItem is keyed by its url.
KeyedInstance(c, ph) == c

\* A targetPos memo that depends on the index alone.
TargetDepsIndexOnly(index, total) == << index >>

\* The dependencies of PolaroidItem.targetPos for the props index and total.
TargetDeps(index, total) == << index, total >>

\* The dependencies of Ornaments.data in the render pass rid: count, the
\* palette array (by the pass that made it) and the scaleRange array, which
\* the Scene writes as a literal in its JSX.
OrnamentDeps(c, th, pal, rid) == << Count(c, th), pal, rid >>

\* Whether the render pass replaces the uniforms object of a point field:
\* TreeLights and Snow pass an object literal, Foliage memoizes it on
\* [color, size].
UniformsReplaced(c, th) ==
    \/ c \in {"lights", "snow"}
    \/ c \in FoliageLayers /\ FoliageColor(c, th) # FoliageColor(c, theme)

\* The render pass for the new theme th and photo list ph.
Render(th, ph) ==
    LET rid == renderId + 1
        pal == IF th # theme THEN rid ELSE paletteMemo
        from(c) == KeyedInstance(c, ph)
        in(c) == InTree(c, th, ph)
        stays(c) == in(c) /\ from(c) \in mounted
        recompute(c) == c \in OrnamentFields /\ OrnamentDeps(c, th, pal, rid) # dataDeps[c]
        retarget(c) ==
            /\ c \in Urls
            /\ TargetDeps(CardSlot(c, ph)[1], CardSlot(c, ph)[2])
                   # TargetDeps(slot[from(c)][1], slot[from(c)][2])
    IN  /\ renderId' = rid
        /\ paletteMemo' = pal
        /\ rngPos' = rngPos + DrawsPerRender
        /\ mounted' = {c \in Components : in(c)}
        /\ chaos' = [c \in Components |->
               IF ~in(c) THEN Origin
               ELSE IF ~stays(c) \/ recompute(c) THEN NewChaos(c, rngSeed, rngPos)
               ELSE chaos[from(c)]]
        /\ target' = [c \in Components |->
               IF ~in(c) THEN Origin
               ELSE IF ~stays(c) \/ recompute(c) \/ retarget(c)
                    THEN NewTarget(c, th, IF c \in Urls THEN CardSlot(c, ph) ELSE <<0, 1>>,
                                   rngSeed, rngPos)
               ELSE target[from(c)]]
        /\ params' = [c \in Components |->
               IF ~in(c) THEN NoParams
               ELSE IF ~stays(c) \/ recompute(c) THEN NewParams(c, rngSeed, rngPos)
               ELSE params[from(c)]]
        /\ progress' = [c \in Components |->
               IF ~stays(c) \/ UniformsReplaced(c, th) THEN 0 ELSE progress[from(c)]]
        /\ rendered' = [c \in Components |->
               IF ~in(c) THEN Origin
               ELSE IF ~stays(c) THEN SetupPosition(c, chaos'[c])
               ELSE IF recompute(c) THEN chaos'[c]
               ELSE rendered[from(c)]]
        /\ dataDeps' = [c \in Components |->
               IF c \in OrnamentFields /\ in(c) THEN OrnamentDeps(c, th, pal, rid)
               ELSE <<0, 0, 0>>]
        /\ slot' = [c \in Components |->
               IF c \in Urls /\ in(c) THEN CardSlot(c, ph) ELSE <<0, 0>>]
        /\ created' = [c \in Components |->
               IF ~in(c) THEN Origin
               ELSE IF ~stays(c) \/ Count(c, th) # Count(c, theme) THEN chaos'[c]
               ELSE created[from(c)]]
        /\ shownScale' = [c \in OrnamentFields |->
               IF ~in(c) THEN 0
               ELSE IF ~stays(c) \/ recompute(c) THEN params'[c].scale
               ELSE shownScale[c]]
        /\ error' = error

\* An error thrown while rendering, with no error boundary above it: React
\* unmounts the whole tree.
Unmount(url) ==
    /\ error' = url
    /\ mounted' = {}
    /\ renderId' = renderId + 1
    /\ UNCHANGED <<paletteMemo, rngPos>>
    /\ chaos' = [c \in Components |-> Origin]
    /\ target' = [c \in Components |-> Origin]
    /\ params' = [c \in Components |-> NoParams]
    /\ progress' = [c \in Components |-> 0]
    /\ rendered' = [c \in Components |-> Origin]
    /\ dataDeps' = [c \in Components |-> <<0, 0, 0>>]
    /\ slot' = [c \in Components |-> <<0, 0>>]
    /\ created' = [c \in Components |-> Origin]
    /\ shownScale' = [c \in OrnamentFields |-> 0]

\* The history of a step named name with argument arg.
Logged(name, arg) ==
    /\ lastOp' = [name |-> name, arg |-> arg, mode |-> mode]
    /\ prevOp' = lastOp
    /\ presses' = IF name = "cycleTheme" THEN presses + 1 ELSE presses

\* A UI event: it counts against MaxEvents and no frame runs in it.
Event(name, arg) ==
    /\ error = "none"
    /\ events < MaxEvents
    /\ events' = events + 1
    /\ Logged(name, arg)
    /\ UNCHANGED <<rngSeed, clock, frames, unit>>

(***************************************************************************)
(* The initial state: the App's initial state and the Scene's first render *)
(* pass.                                                                   *)
(***************************************************************************)
Init ==
    /\ mode = "CHAOS"
    /\ theme = "CLASSIC"
    /\ photos = <<>>
    /\ isGalleryOpen = FALSE
    /\ revoked = {}
    /\ urlCount = 0
    /\ rngSeed \in 0..MaxSeed
    /\ rngPos = DrawsPerRender
    /\ clock = 0
    /\ presses = 0
    /\ renderId = 1
    /\ paletteMemo = 1
    /\ mounted = {c \in Components : InTree(c, "CLASSIC", <<>>)}
    /\ progress = [c \in Components |-> 0]
    /\ chaos = [c \in Components |->
           IF c \in mounted THEN NewChaos(c, rngSeed, 0) ELSE Origin]
    /\ target = [c \in Components |->
           IF c \in mounted THEN NewTarget(c, "CLASSIC", <<0, 1>>, rngSeed, 0) ELSE Origin]
    /\ params = [c \in Components |->
           IF c \in mounted THEN NewParams(c, rngSeed, 0) ELSE NoParams]
    /\ dataDeps = [c \in Components |->
           IF c \in OrnamentFields /\ c \in mounted THEN OrnamentDeps(c, "CLASSIC", 1, 1)
           ELSE <<0, 0, 0>>]
    /\ slot = [c \in Components |-> <<0, 0>>]
    /\ rendered = [c \in Components |->
           IF c \in mounted THEN SetupPosition(c, chaos[c]) ELSE Origin]
    /\ created = chaos
    /\ lastOp = [name |-> "init", arg |-> 0, mode |-> "CHAOS"]
    /\ prevOp = [name |-> "init", arg |-> 0, mode |-> "CHAOS"]
    /\ events = 0
    /\ frames = 0
    /\ error = "none"
    /\ shownScale = [c \in OrnamentFields |-> IF c \in mounted THEN params[c].scale ELSE 0]
    /\ unit = NoUnit

(***************************************************************************)
(* App: the handlers of the UI controls.                                   *)
(***************************************************************************)
\* A setter that forms the tree whatever the mode was.
setFormed(prev) == "FORMED"

\* The mode the mode button sets from the mode prev.
toggleMode(prev) == IF prev = "CHAOS" THEN "FORMED" ELSE "CHAOS"

\* A theme button that goes between CLASSIC and ICY only.
cycleThemeSkippingSnowy(prev) == IF prev = "CLASSIC" THEN "ICY" ELSE "CLASSIC"

\* The theme the theme button sets from the theme prev.
cycleTheme(prev) ==
    IF prev = "CLASSIC" THEN "SNOWY" ELSE IF prev = "SNOWY" THEN "ICY" ELSE "CLASSIC"

\* A removal that drops the last element whatever the index.
removeLast(prev, indexToRemove) == SubSeq(prev, 1, Len(prev) - 1)

\* The list removePhoto sets: prev without the element at indexToRemove
\* (from 0).
removePhoto(prev, indexToRemove) ==
    LET keep == {i \in 1..Len(prev) : i - 1 # indexToRemove}
        nth(k) == CHOOSE i \in keep : Cardinality({j \in keep : j < i}) = k - 1
    IN  [k \in 1..Cardinality(keep) |-> prev[nth(k)]]

\* An upload that puts the new photos in front of the existing ones.
prependPhotos(prev, newPhotos) == newPhotos \o prev

\* handleFileUpload's updater: (prev) => [...prev, ...newPhotos].
appendPhotos(prev, newPhotos) == prev \o newPhotos

\* The object URLs of the n files of one upload.
createObjectURLs(n) == [k \in 1..n |-> UrlNames[urlCount + k]]

ToggleMode ==
    /\ Event("toggleMode", 0)
    /\ mode' = toggleMode(mode)
    /\ Render(theme, photos)
    /\ UNCHANGED <<theme, photos, isGalleryOpen, revoked, urlCount>>

\* A theme button that also scatters the tree.
CycleThemeScattering ==
    /\ Event("cycleTheme", 0)
    /\ theme' = cycleTheme(theme)
    /\ mode' = "CHAOS"
    /\ Render(theme', photos)
    /\ UNCHANGED <<photos, isGalleryOpen, revoked, urlCount>>

CycleTheme ==
    /\ Event("cycleTheme", 0)
    /\ theme' = cycleTheme(theme)
    /\ Render(theme', photos)
    /\ UNCHANGED <<mode, photos, isGalleryOpen, revoked, urlCount>>

\* The files of one upload; useLoader then loads each new url, and throws
\* in the render of a card whose image does not load (failing = its place
\* among the new files, 0 if all load).
HandleFileUpload ==
    \E n \in 1..MaxUrls, failing \in 0..MaxUrls :
        /\ urlCount + n <= MaxUrls
        /\ failing <= n
        /\ Event("handleFileUpload", n)
        /\ photos' = appendPhotos(photos, createObjectURLs(n))
        /\ urlCount' = urlCount + n
        /\ IF failing = 0
           THEN Render(theme, photos')
           ELSE Unmount(createObjectURLs(n)[failing])
        /\ UNCHANGED <<mode, theme, isGalleryOpen, revoked>>

RemovePhoto ==
    \E indexToRemove \in 0..(Len(photos) - 1) :
        /\ isGalleryOpen
        /\ Event("removePhoto", indexToRemove)
        /\ revoked' = revoked \cup {photos[indexToRemove + 1]}
        /\ photos' = removePhoto(photos, indexToRemove)
        /\ Render(theme, photos')
        /\ UNCHANGED <<mode, theme, isGalleryOpen, urlCount>>

OpenGallery ==
    /\ ~isGalleryOpen
    /\ Event("openGallery", 0)
    /\ isGalleryOpen' = TRUE
    /\ Render(theme, photos)
    /\ UNCHANGED <<mode, theme, photos, revoked, urlCount>>

CloseGallery ==
    /\ isGalleryOpen
    /\ Event("closeGallery", 0)
    /\ isGalleryOpen' = FALSE
    /\ Render(theme, photos)
    /\ UNCHANGED <<mode, theme, photos, revoked, urlCount>>

(***************************************************************************)
(* A frame: the useFrame callback of every mounted component runs with the *)
(* same delta and clock.                                                   *)
(***************************************************************************)
Frame ==
    \E dt \in Deltas :
        /\ error = "none"
        /\ frames < MaxFrames
        /\ frames' = frames + 1
        /\ clock' = clock + dt
        /\ progress' = [c \in Components |->
               IF c \in mounted THEN FrameProgress(c, progress[c], mode, dt) ELSE progress[c]]
        /\ rendered' = [c \in Components |->
               IF c \in mounted
               THEN FramePosition(c, progress'[c], clock', chaos[c], target[c], params[c])
               ELSE rendered[c]]
        /\ shownScale' = [c \in OrnamentFields |->
               IF c \in mounted THEN FrameScale(c, progress'[c], clock', params[c])
               ELSE shownScale[c]]
        /\ Logged("frame", dt)
        /\ UNCHANGED <<appVars, sceneVars, rngSeed, events, error, unit>>

(***************************************************************************)
(* The same frame, one useFrame callback after the other.                  *)
(***************************************************************************)
\* The sequence in the opposite order.
Reverse(s) == [i \in 1..Len(s) |-> s[Len(s) + 1 - i]]

\* A TreeLights callback that takes the progress the Star holds.
UpdateFollowingStar(c, st, m, dt, time) ==
    LET from == IF c = "lights" THEN "star" ELSE c
        p == FrameProgress(c, st.progress[from], m, dt)
    IN  [progress |-> [st.progress EXCEPT ![c] = p],
         rendered |-> [st.rendered EXCEPT
                          ![c] = FramePosition(c, p, time, chaos[c], target[c], params[c])],
         shownScale |-> IF c \in OrnamentFields
                        THEN [st.shownScale EXCEPT ![c] = FrameScale(c, p, time, params[c])]
                        ELSE st.shownScale]

\* The useFrame callback of component c, run on the frame state st (the
\* progress, shown position and shown scale of every component) with the
\* mode prop m, the delta dt and the elapsed time.
Update(c, st, m, dt, time) ==
    LET p == FrameProgress(c, st.progress[c], m, dt)
    IN  [progress |-> [st.progress EXCEPT ![c] = p],
         rendered |-> [st.rendered EXCEPT
                          ![c] = FramePosition(c, p, time, chaos[c], target[c], params[c])],
         shownScale |-> IF c \in OrnamentFields
                        THEN [st.shownScale EXCEPT ![c] = FrameScale(c, p, time, params[c])]
                        ELSE st.shownScale]

\* The callbacks of the mounted components, run in the given order.
RECURSIVE RunUpdates(_, _, _, _, _)
RunUpdates(order, st, m, dt, time) ==
    IF order = << >>
    THEN st
    ELSE RunUpdates(Tail(order),
                    IF Head(order) \in mounted THEN Update(Head(order), st, m, dt, time) ELSE st,
                    m, dt, time)

Next ==
    \/ ToggleMode
    \/ CycleTheme
    \/ HandleFileUpload
    \/ RemovePhoto
    \/ OpenGallery
    \/ CloseGallery
    \/ Frame

Spec == Init /\ [][Next]_vars

(***************************************************************************)
(* Components and functions driven on their own, with props and arguments  *)
(* a parent other than the Scene could pass.  Each behaviour drives one.   *)
(***************************************************************************)
\* The instances an Ornaments component is mounted with: 0..MaxCount.
MaxCount == 2

\* The values of the type prop: the eight of OrnamentsProps and two that are
\* none of them.
TypeValues ==
    {"box", "sphere", "triangle", "cylinder", "cone", "dodecahedron", "flat-box", "star",
     "pyramid", ""}

\* An Ornaments field whose unrecognised type falls back to the box.
getGeometryBoxFallback(type) ==
    CASE type = "triangle" -> "coneGeometry"
      [] type = "cylinder" -> "cylinderGeometry"
      [] type = "cone" -> "coneGeometry"
      [] type = "dodecahedron" -> "dodecahedronGeometry"
      [] type = "star" -> "octahedronGeometry"
      [] type = "sphere" -> "sphereGeometry"
      [] OTHER -> "boxGeometry"

\* Ornaments.getGeometry: the geometry element for the type prop.
getGeometry(type) ==
    CASE type = "box" -> "boxGeometry"
      [] type = "flat-box" -> "boxGeometry"
      [] type = "triangle" -> "coneGeometry"
      [] type = "cylinder" -> "cylinderGeometry"
      [] type = "cone" -> "coneGeometry"
      [] type = "dodecahedron" -> "dodecahedronGeometry"
      [] type = "star" -> "octahedronGeometry"
      [] OTHER -> "sphereGeometry"

\* Ornaments' initial setup (useLayoutEffect) for count instances: setColorAt
\* creates the mesh's instanceColor attribute on its first call, and the
\* effect then sets instanceColor.needsUpdate.
OrnamentsSetup(count) ==
    LET instanceColor == IF count > 0 THEN "InstancedBufferAttribute" ELSE "null"
    IN  IF instanceColor = "null" THEN "TypeError" ELSE "none"

\* Polaroids: what it returns for a list of n urls.
Polaroids(n) == IF n = 0 THEN "null" ELSE "group"

\* The state of the App and the Scene, which a unit leaves alone.
appState == <<appVars, sceneVars, rngSeed, clock, progress, rendered, lastOp, prevOp,
              events, frames, presses, error, shownScale>>

\* An Ornaments component is mounted with the props count and type.
UnitOrnaments ==
    \E count \in 0..MaxCount, type \in TypeValues :
        /\ unit = NoUnit
        /\ unit' = [op |-> "Ornaments", count |-> count, type |-> type,
                    geometry |-> getGeometry(type),
                    rendered |-> IF OrnamentsSetup(count) = "none" THEN count ELSE 0,
                    error |-> OrnamentsSetup(count)]
        /\ UNCHANGED appState

\* A Polaroids component is mounted with a list of n urls.
UnitPolaroids ==
    \E n \in 0..MaxUrls :
        /\ unit = NoUnit
        /\ unit' = [op |-> "Polaroids", count |-> n, element |-> Polaroids(n),
                    rendered |-> IF Polaroids(n) = "null" THEN 0 ELSE n,
                    error |-> "none"]
        /\ UNCHANGED appState

\* The deltas of a tick of a single component, in quarter seconds.
TickDeltas == 1..(5 * TicksPerSecond)

\* A component whose damping constant is 1.2 (the Trunk, a PolaroidItem)
\* is at progress 0 when the mode becomes FORMED.
UnitFlip ==
    \E c \in {"trunk", UrlNames[1]} :
        /\ unit = NoUnit
        /\ unit' = [op |-> "useFrame", c |-> c, mode |-> "FORMED", progress |-> 0,
                    elapsed |-> 0, ticks |-> 0]
        /\ UNCHANGED appState

\* One useFrame tick of that component, with delta dt.
UnitTick ==
    \E dt \in TickDeltas :
        /\ unit.op = "useFrame"
        /\ unit.elapsed + dt <= 5 * TicksPerSecond
        /\ unit' = [unit EXCEPT !.progress = FrameProgress(unit.c, @, unit.mode, dt),
                                !.elapsed = @ + dt,
                                !.ticks = @ + 1]
        /\ UNCHANGED appState

\* The radius arguments of randomSpherePoint, in 1/Milli: the two the
\* components pass (14, 25) and two others.
Radii == {1, 500, 14 * Milli, 25 * Milli}

\* The outcomes of a Math.random() draw that are tried, in 1/Milli.
DrawSamples == {0, 1, 250, 500, 750, 999}

\* The squared length of a vector.
LengthSq(p) == p[1] * p[1] + p[2] * p[2] + p[3] * p[3]

\* randomSpherePoint is called with a radius and the three draws u, v, w.
UnitSpherePoint ==
    \E radius \in Radii, u \in DrawSamples, v \in DrawSamples, w \in DrawSamples :
        /\ unit = NoUnit
        /\ unit' = [op |-> "randomSpherePoint", radius |-> radius, u |-> u, v |-> v, w |-> w,
                    point |-> randomSpherePoint(radius, u, v, w)]
        /\ UNCHANGED appState

\* The <<radiusBase, height, yOffset>> arguments of getTreeSurfacePosition,
\* in 1/Milli: those the Ornaments (4.0, 9.5, -5) and the TreeLights
\* (4.6, 9.8, -5) pass, and the unit cone.
ConeArgs == { <<4 * Milli, 9500, -5 * Milli>>, <<4600, 9800, -5 * Milli>>, <<Milli, Milli, 0>> }

\* getTreeSurfacePosition is called with a cone and the two draws u, u2.
UnitSurfacePoint ==
    \E cone \in ConeArgs, u \in DrawSamples, u2 \in DrawSamples :
        /\ unit = NoUnit
        /\ unit' = [op |-> "getTreeSurfacePosition", radiusBase |-> cone[1],
                    height |-> cone[2], yOffset |-> cone[3], u |-> u, u2 |-> u2,
                    point |-> getTreeSurfacePosition(cone[1], cone[2], cone[3], u, u2)]
        /\ UNCHANGED appState

\* The particle fields: their points are placed by a vertex shader.
ParticleFields == FoliageLayers \cup {"snow", "lights"}

\* The values of uProgress a vertex shader is run with.
ProgressSamples == {0, One \div 4, One \div 2, 3 * (One \div 4), One}

\* The vertex shader of a particle field places one point: uProgress p,
\* uTime time (quarter seconds), the point's aRandom or aPhase, and its
\* aChaos and aTarget attributes.
UnitVertexShader ==
    \E c \in ParticleFields, p \in ProgressSamples, time \in {0, 3},
       phase \in {0, 700}, ch \in { <<12 * Milli, -3 * Milli, 5 * Milli>> },
       tg \in { <<Milli, 2 * Milli, -500>>, <<-2 * Milli, -4 * Milli, 0>> } :
        /\ unit = NoUnit
        /\ unit' = [op |-> "vertexShader", c |-> c, progress |-> p, time |-> time,
                    par |-> [NoParams EXCEPT !.phase = phase], chaos |-> ch, target |-> tg,
                    point |-> FramePosition(c, p, time, ch, tg,
                                            [NoParams EXCEPT !.phase = phase])]
        /\ UNCHANGED appState

\* The values of progress.current an Ornaments frame is run with: around
\* the two thresholds, the ends, and 0.5 (whose eased value is 0.875).
GateSamples == {0, One \div 2, 8000, 8001, 9000, 9001, One}

\* One useFrame tick of an Ornaments field places one instance: the type
\* and emissive props, progress p, the elapsed time (quarter seconds), the
\* instance's phase, chaos and target.
UnitOrnamentsFrame ==
    \E c \in OrnamentFields, emissive \in BOOLEAN, p \in GateSamples, time \in {1, 3},
       phase \in {0, 700} :
        LET ch == <<12 * Milli, -3 * Milli, 5 * Milli>>
            tg == <<Milli, 2 * Milli, -500>>
            par == [NoParams EXCEPT !.phase = phase]
        IN  /\ unit = NoUnit
            /\ unit' = [op |-> "OrnamentsFrame", c |-> c, type |-> OrnamentType(c),
                        emissive |-> emissive, progress |-> p, time |-> time,
                        phase |-> phase, chaos |-> ch, target |-> tg,
                        position |-> FramePosition(c, p, time, ch, tg, par),
                        scaleMult |-> ScaleMult(emissive, OrnamentType(c), p, time, phase)]
            /\ UNCHANGED appState

\* The Remove clicks on one photo list.
MaxClicks == 2

\* prev[index] in JavaScript: undefined when the index is out of range.
At(prev, index) == IF index < Len(prev) THEN prev[index + 1] ELSE "undefined"

\* The App holds n photos and its gallery is rendered with them: the
\* Remove button of each photo has captured the photo's index.
UnitGallery ==
    \E n \in 1..MaxUrls :
        /\ unit = NoUnit
        /\ unit' = [op |-> "gallery", photos |-> [k \in 1..n |-> UrlNames[k]],
                    shown |-> [k \in 1..n |-> UrlNames[k]], revoked |-> {}, count |-> n,
                    clicks |-> 0, clicked |-> "none", removed |-> "none"]
        /\ UNCHANGED appState

\* A click on the Remove button the gallery shows at an index: removePhoto
\* runs with that index on the photo list as it is now.
UnitGalleryRemove ==
    \E index \in 0..(MaxUrls - 1) :
        /\ unit.op = "gallery"
        /\ unit.clicks < MaxClicks
        /\ index < Len(unit.shown)
        /\ unit' = [unit EXCEPT !.photos = removePhoto(@, index),
                                !.revoked = @ \cup {At(unit.photos, index)},
                                !.clicks = @ + 1,
                                !.clicked = unit.shown[index + 1],
                                !.removed = At(unit.photos, index)]
        /\ UNCHANGED appState

\* The App re-renders: the gallery shows the photo list as it is now.
UnitGalleryRender ==
    /\ unit.op = "gallery"
    /\ unit.shown # unit.photos
    /\ unit' = [unit EXCEPT !.shown = unit.photos, !.clicks = 0]
    /\ UNCHANGED appState

\* An upload of n files to that App, and the re-render that follows.
UnitGalleryUpload ==
    \E n \in 1..MaxUrls :
        /\ unit.op = "gallery"
        /\ unit.count + n <= MaxUrls
        /\ unit' = [unit EXCEPT
                        !.photos = appendPhotos(@, [k \in 1..n |-> UrlNames[unit.count + k]]),
                        !.shown = appendPhotos(unit.photos,
                                               [k \in 1..n |-> UrlNames[unit.count + k]]),
                        !.count = @ + n,
                        !.clicks = 0]
        /\ UNCHANGED appState

\* The ticks two Ornaments fields are compared over.
MaxTicks == 3

\* Two Ornaments fields a, b with weight(a) > weight(b) hold the same
\* progress and are given the same mode.
UnitWeights ==
    \E a \in OrnamentFields, b \in OrnamentFields, m \in TreeMode,
       start \in {0, One \div 2, One} :
        /\ unit = NoUnit
        /\ Weight(a) > Weight(b)
        /\ start # ProgressTarget(m)
        /\ unit' = [op |-> "weights", a |-> a, b |-> b, mode |-> m,
                    heavy |-> start, light |-> start, ticks |-> 0]
        /\ UNCHANGED appState

\* One frame: the useFrame tick of both fields, with the same delta.
UnitWeightsTick ==
    \E dt \in Deltas :
        /\ unit.op = "weights"
        /\ unit.ticks < MaxTicks
        /\ unit' = [unit EXCEPT !.heavy = FrameProgress(unit.a, @, unit.mode, dt),
                                !.light = FrameProgress(unit.b, @, unit.mode, dt),
                                !.ticks = @ + 1]
        /\ UNCHANGED appState

UnitNext ==
    \/ UnitOrnaments
    \/ UnitPolaroids
    \/ UnitFlip
    \/ UnitTick
    \/ UnitSpherePoint
    \/ UnitWeights
    \/ UnitWeightsTick
    \/ UnitSurfacePoint
    \/ UnitVertexShader
    \/ UnitOrnamentsFrame
    \/ UnitGallery
    \/ UnitGalleryRemove
    \/ UnitGalleryRender
    \/ UnitGalleryUpload

UnitSpec == Init /\ [][UnitNext]_vars

(***************************************************************************)
(* Properties.                                                             *)
(***************************************************************************)
\* C1: the stored chaos position of every mounted entity equals the value it
\* was created with, as long as its count is unchanged, in every reachable
\* state: no toggle, re-render, photo change or frame regenerates it.
ChaosPositionStable == \A c \in mounted : chaos[c] = created[c]

\* C2: removing a photo card leaves the chaos position, the random sway
\* parameters and the progress of every surviving card unchanged.
RemovalKeepsSurvivors ==
    [][lastOp'.name = "removePhoto" =>
          \A u \in Range(photos') :
              /\ chaos'[u] = chaos[u]
              /\ params'[u] = params[u]
              /\ progress'[u] = progress[u]]_vars

\* A removal has just left a card behind that is part-way through its
\* transition.
RemovalWithAnimatedSurvivor ==
    /\ lastOp.name = "removePhoto"
    /\ \E u \in Range(photos) : progress[u] > 0 /\ params[u].speed > 0

\* C3, as stated: after a frame, a component whose progress is exactly 0 is
\* rendered at its chaos position and one whose progress is exactly 1 at its
\* target position, with no offset.
EndpointsExact ==
    lastOp.name = "frame" =>
        \A c \in mounted :
            /\ progress[c] = 0 => rendered[c] = chaos[c]
            /\ progress[c] = One => rendered[c] = target[c]

\* C3, amended: a frame renders each component at the position its frame
\* function gives for its progress, and at the endpoints that position is
\*   - the chaos position (progress 0) and the target position (progress 1)
\*     exactly for the star, the ribbon, the leaves, the lights and the
\*     photo cards;
\*   - for an Ornaments field the chaos position at 0, and at 1 the target
\*     with a vertical wobble of at most 0.05;
\*   - for a Foliage layer the chaos position at 0, and at 1 the target with
\*     a vertical breathing offset of at most 0.1;
\*   - for the snow, at both ends, within 0.2 on every axis.
EndpointsUpToOffsets ==
    \A c \in mounted :
        LET at0 == FramePosition(c, 0, clock, chaos[c], target[c], params[c])
            at1 == FramePosition(c, One, clock, chaos[c], target[c], params[c])
        IN  /\ lastOp.name = "frame" =>
                   rendered[c] = FramePosition(c, progress[c], clock, chaos[c], target[c],
                                               params[c])
            /\ IF c = "snow"
               THEN \A i \in 1..3 : /\ Abs(at0[i] - chaos[c][i]) <= 200
                                    /\ Abs(at1[i] - target[c][i]) <= 200
               ELSE /\ at0 = chaos[c]
                    /\ at1[1] = target[c][1]
                    /\ at1[3] = target[c][3]
                    /\ Abs(at1[2] - target[c][2]) <=
                           (IF c \in OrnamentFields THEN 50
                            ELSE IF c \in FoliageLayers THEN 100 ELSE 0)

\* A frame has brought an Ornaments field to progress 1 away from its target
\* and the leaves to progress 1 on their target.
FormedWithWobble ==
    /\ lastOp.name = "frame"
    /\ \E c \in mounted \cap OrnamentFields :
           progress[c] = One /\ rendered[c] # target[c]
    /\ progress["leaves"] = One
    /\ rendered["leaves"] = target["leaves"]

\* C4: the progress of every mounted component stays within [0, 1] in every
\* reachable state, whatever the frame deltas.
ProgressInUnitInterval == \A c \in mounted : 0 <= progress[c] /\ progress[c] <= One

\* C5: only a frame changes the progress of a component: a mode toggle, a
\* theme change, a photo addition or removal or any other re-render leaves
\* the progress of every component that stays mounted unchanged.
ProgressChangesOnlyInFrames ==
    [][lastOp'.name # "frame" =>
          \A c \in mounted \cap mounted' : progress'[c] = progress[c]]_vars

TimeStepIndependent ==
    \A c \in mounted :
        \A dt \in Deltas :
            LET once  == FrameProgress(c, progress[c], mode, dt)
                half  == FrameProgress(c, progress[c], mode, dt \div 2)
                twice == FrameProgress(c, half, mode, dt \div 2)
            IN  Abs(once - twice) <= 2

\* C8: removing the photo at index k of N photos leaves the N-1 others in
\* their order: the photo at an index j < k keeps index j, the photo at an
\* index j > k gets index j-1, and every card sees total = N-1.
RemovalShiftsIndices ==
    [][lastOp'.name = "removePhoto" =>
          LET k == lastOp'.arg
              N == Len(photos)
          IN  /\ Len(photos') = N - 1
              /\ \A j \in 0..(N - 1) :
                     /\ j < k => /\ photos'[j + 1] = photos[j + 1]
                                 /\ slot'[photos[j + 1]] = << j, N - 1 >>
                     /\ j > k => /\ photos'[j] = photos[j + 1]
                                 /\ slot'[photos[j + 1]] = << j - 1, N - 1 >>]_vars

\* The middle one of three photos has just been removed: the first keeps
\* index 0 and the third has moved to index 1.
MiddleOfThreeRemoved ==
    /\ lastOp.name = "removePhoto"
    /\ lastOp.arg = 1
    /\ photos = << UrlNames[1], UrlNames[3] >>
    /\ slot[UrlNames[1]] = << 0, 2 >>
    /\ slot[UrlNames[3]] = << 1, 2 >>

\* C9, as stated: when a photo is removed, every surviving card whose index
\* is unchanged keeps exactly its previous target position.
UnchangedIndexKeepsTarget ==
    [][lastOp'.name = "removePhoto" =>
          \A u \in Range(photos') :
              slot'[u][1] = slot[u][1] => target'[u] = target[u]]_vars

\* C9, amended: when a photo is removed, every surviving card takes the
\* target position of its new index and the new total; only the card that
\* stays at index 0 is sure to keep its previous target position.
RemovalRetargetsAll ==
    [][lastOp'.name = "removePhoto" =>
          \A u \in Range(photos') :
              /\ target'[u] = TargetPos(slot'[u][1], slot'[u][2])
              /\ slot'[u][1] = 0 /\ slot[u][1] = 0 => target'[u] = target[u]]_vars

\* A removal has just left a card at index 0 and a card at a later index.
RemovalWithTwoSurvivors ==
    /\ lastOp.name = "removePhoto"
    /\ \E u, v \in Range(photos) : slot[u][1] = 0 /\ slot[v][1] > 0

\* C10: when a photo is removed, the progress of every surviving card is
\* carried over, and the position the frame function gives it at the same
\* clock time moves, on every axis, by at most the eased progress times the
\* change of its target (plus a unit of rounding).
RetargetContinuous ==
    [][lastOp'.name = "removePhoto" =>
          \A u \in Range(photos') :
              LET e == EaseOutCubic(progress[u])
                  before == FramePosition(u, progress[u], clock, chaos[u], target[u],
                                          params[u])
                  after == FramePosition(u, progress'[u], clock', chaos'[u], target'[u],
                                         params'[u])
              IN  /\ progress'[u] = progress[u]
                  /\ \A i \in 1..3 :
                         Abs(after[i] - before[i]) <=
                             RoundDiv(e * Abs(target'[u][i] - target[u][i]), One) + 1]_vars

\* A removal has just moved the target of a card that is part-way through
\* its transition.
RetargetedInFlight ==
    /\ lastOp.name = "removePhoto"
    /\ \E u \in Range(photos) :
           /\ slot[u][1] > 0
           /\ 0 < progress[u] /\ progress[u] < One
           /\ rendered[u] # target[u]

\* C11: a population of size 0 is a no-op and never an error: an Ornaments
\* component mounted with count 0 and a Polaroids with no urls render
\* nothing and raise no error.
EmptyPopulationIsNoOp ==
    unit.op \in {"Ornaments", "Polaroids"} /\ unit.count = 0 =>
        unit.rendered = 0 /\ unit.error = "none"

FailedImageDropsOnlyItsCard ==
    error # "none" =>
        mounted = {c \in Components : InTree(c, theme, photos) /\ c # error}

\* C14: a component with damping constant 1.2 that is at progress 0 when
\* the mode becomes FORMED is above 0.99 after ticks whose deltas sum to 5
\* seconds, however the 5 seconds are divided into ticks.
SettledAfterFiveSeconds ==
    unit.op = "useFrame" /\ unit.elapsed = 5 * TicksPerSecond =>
        unit.progress > 99 * (One \div 100)

\* 5 seconds have passed in at least four ticks.
FiveSecondsInFourTicks ==
    /\ unit.op = "useFrame"
    /\ unit.elapsed = 5 * TicksPerSecond
    /\ unit.ticks >= 4

\* C20: for every radius > 0 and every outcome of the three draws, the
\* point randomSpherePoint returns is no farther from the origin than the
\* radius, and its distance is radius * cbrt(w) for the third draw w (both
\* up to the rounding of the fixed-point arithmetic, 3/Milli).
SpherePointWithinRadius ==
    unit.op = "randomSpherePoint" =>
        /\ LengthSq(unit.point) <= (unit.radius + 3) * (unit.radius + 3)
        /\ Abs(ISqrt(LengthSq(unit.point)) - Times(Cbrt(unit.w), unit.radius)) <= 3

\* A point has been drawn with the largest radial draw, close to the
\* surface of the sphere of radius 25.
SpherePointNearSurface ==
    /\ unit.op = "randomSpherePoint"
    /\ unit.radius = 25 * Milli
    /\ unit.w = 999
    /\ LengthSq(unit.point) >= (24 * Milli) * (24 * Milli)

\* C15: after every frame the scale of an Ornaments field's instance, its
\* star pulse aside, lies within the scaleRange [min, max] of the field, at
\* every progress from 0 to 1.
ScaleWithinRange ==
    lastOp.name = "frame" =>
        \A c \in mounted \cap OrnamentFields :
            ~(OrnamentType(c) = "star" /\ progress[c] > 9 * (One \div 10)) =>
                /\ ScaleRange(c)[1] <= shownScale[c]
                /\ shownScale[c] <= ScaleRange(c)[2]

\* C16, as stated: of two Ornaments fields that start at the same progress
\* and get the same mode and the same ticks, the one with the higher
\* weight is at least as close to the target after every tick.
HeavierConvergesFaster ==
    unit.op = "weights" =>
        Abs(ProgressTarget(unit.mode) - unit.heavy) <= Abs(ProgressTarget(unit.mode) - unit.light)

\* C16, amended: of two Ornaments fields that start at the same progress
\* and get the same mode and the same ticks, the one with the higher
\* weight is at most as close to the target after every tick: a higher
\* weight gives slower convergence.
HeavierConvergesSlower ==
    unit.op = "weights" =>
        Abs(ProgressTarget(unit.mode) - unit.heavy) >= Abs(ProgressTarget(unit.mode) - unit.light)

\* After two ticks the heavier field is strictly farther from the target.
HeavierBehindAfterTwoTicks ==
    /\ unit.op = "weights"
    /\ unit.ticks >= 2
    /\ Abs(ProgressTarget(unit.mode) - unit.heavy) > Abs(ProgressTarget(unit.mode) - unit.light)

ModeWrittenByControlOnly ==
    [][mode' # mode => lastOp'.name = "toggleMode"]_vars

\* The tree was formed, then photos were added and the theme changed.
FormedThenUploadAndTheme ==
    /\ mode = "FORMED"
    /\ prevOp.name = "handleFileUpload"
    /\ lastOp.name = "cycleTheme"

\* C19: with the mode fixed, a frame moves the progress of every component
\* that is off its target toward the target and not beyond it.  (The
\* fixed-point progress cannot tell a value within 1/One of another, so
\* staying put and landing on the target are let through here.)
ProgressApproachesTarget ==
    [][lastOp'.name = "frame" =>
          \A c \in mounted :
              LET goal == ProgressTarget(mode)
              IN  /\ progress[c] < goal => progress[c] <= progress'[c] /\ progress'[c] <= goal
                  /\ progress[c] > goal => goal <= progress'[c] /\ progress'[c] <= progress[c]]_vars

\* C21: for every draw the point getTreeSurfacePosition returns has its y
\* in [yOffset, yOffset + height] and its horizontal distance from the axis
\* equal to radiusBase * (1 - (y - yOffset) / height) (up to the rounding
\* of the fixed-point arithmetic, 3/Milli): 0 at the top and never more
\* than radiusBase.
SurfacePointOnCone ==
    unit.op = "getTreeSurfacePosition" =>
        LET x == unit.point[1]
            y == unit.point[2]
            z == unit.point[3]
            dist == ISqrt(x * x + z * z)
            taper == RoundDiv(unit.radiusBase * (unit.height - (y - unit.yOffset)), unit.height)
        IN  /\ unit.yOffset <= y
            /\ y <= unit.yOffset + unit.height
            /\ Abs(dist - taper) <= 3
            /\ dist <= unit.radiusBase + 3
            /\ y = unit.yOffset + unit.height => dist = 0

\* getTreeSurfacePosition has returned the apex of the Ornaments' cone (the
\* draw 0) and a point near its base.
SurfacePointAtApex ==
    /\ unit.op = "getTreeSurfacePosition"
    /\ unit.radiusBase = 4 * Milli
    /\ unit.u = 0
    /\ unit.point = << 0, unit.yOffset + unit.height, 0 >>

\* The sum of two vectors.
Plus(a, b) == << a[1] + b[1], a[2] + b[2], a[3] + b[3] >>

\* What a component adds to the interpolated position in a frame (the
\* breathing of the Foliage, the float of the Snow): what it shows when
\* chaos and target are both the origin.
FrameOffset(c, p, time, par) == FramePosition(c, p, time, Origin, Origin, par)

TargetIsFunctionOfSlot ==
    \A u \in mounted \cap Urls :
        /\ slot[u] = CardSlot(u, photos)
        /\ target[u] = TargetPos(slot[u][1], slot[u][2])

\* The first of three photos was removed from a formed tree: the second
\* url now holds index 0 of 2.
SecondCardTookFirstSlot ==
    /\ lastOp.name = "removePhoto"
    /\ mode = "FORMED"
    /\ photos = << UrlNames[2], UrlNames[3] >>
    /\ slot[UrlNames[2]] = << 0, 2 >>

\* C24 (its second half): once the progress of a component is above 0.99
\* in mode FORMED (below 0.01 in mode CHAOS) it stays there, in every step
\* that leaves the component mounted, until the mode changes.
SettledUntilModeChanges ==
    [][mode' = mode =>
          \A c \in mounted \cap mounted' :
              /\ mode = "FORMED" /\ progress[c] > 99 * (One \div 100) =>
                      progress'[c] > 99 * (One \div 100)
              /\ mode = "CHAOS" /\ progress[c] < One \div 100 =>
                      progress'[c] < One \div 100]_vars

\* C25: in an Ornaments field the near-formed effects are gated on the raw
\* progress t: the instance is off the pure lerp, by the wobble
\* sin(2 * time + phase) * 0.05 on y, if and only if t > 0.8, and the scale
\* multiplier is the pulse 1 + sin(3 * time + phase) * 0.2 if and only if
\* t > 0.9 and the field is emissive or of type star; otherwise the position
\* is the pure lerp and the multiplier exactly 1.
EffectsGatedOnRawProgress ==
    unit.op = "OrnamentsFrame" =>
        LET t == unit.progress
            pure == LerpVectors(unit.chaos, unit.target, EaseOutCubic(t))
            wobble == Times(Sin(500 * unit.time + unit.phase), 50)
            pulse == Milli + Times(Sin(750 * unit.time + unit.phase), 200)
        IN  /\ t > 8000 => unit.position = << pure[1], pure[2] + wobble, pure[3] >>
            /\ t <= 8000 => unit.position = pure
            /\ t > 9000 /\ (unit.emissive \/ unit.type = "star") => unit.scaleMult = pulse
            /\ ~(t > 9000 /\ (unit.emissive \/ unit.type = "star")) => unit.scaleMult = Milli

\* A star field was run at progress 0.5, where the eased progress (0.875)
\* is above 0.8 and the raw one is not, and at a time when the pulse would
\* show: it is on the pure lerp at scale multiplier 1.
StarBelowGatesButEasedAbove ==
    /\ unit.op = "OrnamentsFrame"
    /\ unit.type = "star"
    /\ unit.progress = One \div 2
    /\ EaseOutCubic(unit.progress) > 8000
    /\ Times(Sin(750 * unit.time + unit.phase), 200) # 0
    /\ unit.scaleMult = Milli
    /\ unit.position = LerpVectors(unit.chaos, unit.target, EaseOutCubic(unit.progress))

\* C26: an upload of n files appends: the list grows by exactly n, every
\* photo already present keeps its index, and (when every new image loads)
\* every card already present keeps its index and gets the new total.
UploadAppends ==
    [][lastOp'.name = "handleFileUpload" =>
          LET n == lastOp'.arg
              N == Len(photos)
          IN  /\ Len(photos') = N + n
              /\ \A j \in 1..N : photos'[j] = photos[j]
              /\ \A j \in (N + 1)..(N + n) : photos'[j] \notin Range(photos)
              /\ error' = "none" =>
                     \A j \in 1..N : slot'[photos[j]] = << j - 1, N + n >>]_vars

\* Two photos have just been uploaded after a first one, and all loaded.
UploadedOntoExisting ==
    /\ lastOp.name = "handleFileUpload"
    /\ lastOp.arg = 2
    /\ prevOp.name = "handleFileUpload"
    /\ error = "none"
    /\ Len(photos) = 3
    /\ slot[photos[1]] = << 0, 3 >>

\* C27: every url in the photo list is still valid: removePhoto revokes
\* exactly the url it drops and none that stays in the list, after any
\* sequence of uploads and of removals with indices in or out of range.
ListedUrlsNotRevoked ==
    /\ Range(photos) \cap revoked = {}
    /\ unit.op = "gallery" =>
           /\ Range(unit.photos) \cap unit.revoked = {}
           /\ unit.removed \notin Range(unit.photos)
           /\ \A k \in 1..unit.count :
                  UrlNames[k] \in Range(unit.photos) \/ UrlNames[k] \in unit.revoked

\* A removal ran with an index that was out of range when it was applied,
\* after an earlier removal: nothing was dropped.
RemovalOutOfRange ==
    /\ unit.op = "gallery"
    /\ unit.clicks = 2
    /\ unit.removed = "undefined"
    /\ unit.revoked # {"undefined"}

\* C28: a removal removes exactly the photo that was clicked: of two clicks
\* on the same rendered gallery, each leaves the list without the photo its
\* button was rendered for and removes no other photo.
ClickRemovesItsPhoto ==
    unit.op = "gallery" /\ unit.clicks > 0 =>
        /\ unit.clicked \notin Range(unit.photos)
        /\ unit.removed \in {unit.clicked, "undefined"}

\* C29: in every theme every Ornaments field the Scene mounts has a count
\* above 0: boxes, drums, flat items and stars are mounted exactly when
\* their count for the theme is positive, and canes, bells, pinecones and
\* balls are always mounted and have a positive count in every theme.
MountedFieldsHaveInstances ==
    /\ \A c \in mounted \cap OrnamentFields : Count(c, theme) > 0
    /\ error = "none" =>
           /\ \A c \in {"box", "drum", "flat", "stars"} : c \in mounted <=> Count(c, theme) > 0
           /\ {"cane", "bell", "pine", "ball"} \subseteq mounted
    /\ \A th \in Theme : \A c \in {"cane", "bell", "pine", "ball"} : Count(c, th) > 0

\* The theme is ICY: the stars are mounted and the boxes, drums and flat
\* items are not.
IcyMountsStarsOnly ==
    /\ theme = "ICY"
    /\ "stars" \in mounted
    /\ mounted \cap {"box", "drum", "flat"} = {}

\* The theme n presses of the theme button after CLASSIC.
ThemeAfter(n) ==
    CASE n % 3 = 0 -> "CLASSIC"
      [] n % 3 = 1 -> "SNOWY"
      [] n % 3 = 2 -> "ICY"

\* C30: the theme button cycles CLASSIC -> SNOWY -> ICY -> CLASSIC: after n
\* presses the theme is the one n mod 3 gives, so three presses restore it,
\* and a press changes neither the mode nor the photo list; nothing else
\* changes the theme.
ThemeCycles ==
    /\ [](theme = ThemeAfter(presses))
    /\ [][/\ lastOp'.name = "cycleTheme" =>
                 /\ presses' = presses + 1
                 /\ mode' = mode
                 /\ photos' = photos
          /\ theme' # theme => lastOp'.name = "cycleTheme"]_vars

\* Three presses in a row, from CLASSIC through SNOWY and ICY, have brought
\* the theme back to CLASSIC.
ThreePressesBackToClassic ==
    /\ presses = 3
    /\ theme = "CLASSIC"
    /\ lastOp.name = "cycleTheme"
    /\ prevOp.name = "cycleTheme"

====
